---- MODULE Spec2Model ----
(***************************************************************************)
(* Model of slicedisplay (src/src/lib.rs): the SliceDisplay entry point,   *)
(* the builder operations of SliceDisplayImpl and its Display::fmt.        *)
(*                                                                         *)
(* Text is a sequence of one-character strings.  A ChromeLiteral is such a *)
(* sequence: of length 1 in the default build (char), of any length in the *)
(* "multichar" build (&'static str).                                       *)
(***************************************************************************)
EXTENDS Integers, Sequences, FiniteSets, TLC

VARIABLES
    multichar,   \* the cargo feature "multichar" of this build
    elems,       \* the caller's elements; the three containers hold them
    h,           \* the handle under configuration (NoHandle before display)
    recv,        \* the caller's copy of the receiver of the builder call that produced h
    lastOp,      \* the most recent API operation that produced h
    lastTerm,    \* argument of the last terminator() call since display, or Unset
    lastDelim,   \* argument of the last delimiter() call since display, or Unset
    lastSpace,   \* argument of the last should_space() call since display, or Unset
    pc,          \* position inside fmt ("idle" outside of it)
    i,           \* index of the loop `for elem in elems`
    out,         \* what the sink of the current rendering has accepted
    log,         \* the calls fmt made on the sink / on elements, in order
    result,      \* return value of the current rendering: "Ok", "Err" or "None"
    hStart,      \* value of h when the current rendering began
    prevOut,     \* output of the last successful rendering of h, or NoText
    prevFailed   \* a rendering of h has failed since h was produced

vars == <<multichar, elems, h, recv, lastOp, lastTerm, lastDelim, lastSpace,
          pc, i, out, log, result, hStart, prevOut, prevFailed>>

hvars == <<h, recv, lastOp, lastTerm, lastDelim, lastSpace>>
fvars == <<pc, i, out, log, result, hStart>>
pvars == <<prevOut, prevFailed>>

\* Longest input sequence explored.
MaxLen == 3

NoHandle == [none |-> TRUE]
Unset == [set |-> FALSE]
NoText == <<"no text">>

----------------------------------------------------------------------------
(* Elements: T: Display.  An element either renders its decimal text into *)
(* the sink or its own fmt returns Err.                                    *)

ElemValues ==
    { [val |-> 1, fails |-> FALSE],
      [val |-> 20, fails |-> FALSE],
      [val |-> 3, fails |-> TRUE] }

RECURSIVE SeqsUpTo(_, _)
SeqsUpTo(S, n) ==
    IF n = 0 THEN {<<>>}
    ELSE LET shorter == SeqsUpTo(S, n - 1)
         IN shorter \cup {Append(s, x) : s \in {t \in shorter : Len(t) = n - 1}, x \in S}

Digits == <<"0", "1", "2", "3", "4", "5", "6", "7", "8", "9">>

\* Display of an integer: its decimal digits, most significant first.
RECURSIVE RenderInt(_)
RenderInt(n) ==
    IF n < 10 THEN <<Digits[n + 1]>>
    ELSE RenderInt(n \div 10) \o <<Digits[(n % 10) + 1]>>

Render(e) == RenderInt(e.val)

----------------------------------------------------------------------------
(* Containers: anything that is AsRef<[T]>.                                *)

Kinds == {"vec", "slice", "array"}

\* A Vec owns a buffer that may be larger than its length.
Filler == [val |-> 0, fails |-> FALSE]

Container(kind, s) ==
    CASE kind = "vec"   -> [kind |-> "vec", buf |-> s \o <<Filler>>, len |-> Len(s)]
      [] kind = "slice" -> [kind |-> "slice", data |-> s]
      [] kind = "array" -> [kind |-> "array", data |-> s]

AsRef(c) ==
    IF c.kind = "vec" THEN SubSeq(c.buf, 1, c.len) ELSE c.data

----------------------------------------------------------------------------
(* ChromeLiteral values used as builder arguments.                         *)

DefaultTerminators == << <<"[">>, <<"]">> >>
DefaultDelimiter == <<",">>

TermArgs ==
    IF multichar
    THEN { << <<"{", "{">>, <<"}", "}">> >>, << <<>>, <<>> >> }
    ELSE { << <<"{">>, <<"}">> >> }

DelimArgs ==
    IF multichar
    THEN { <<"-", ">">>, <<>> }
    ELSE { <<";">> }

----------------------------------------------------------------------------
(* SliceDisplay::display and the builders of SliceDisplayImpl.             *)

displayNoSpace(c) ==
    [slice |-> AsRef(c), terminators |-> DefaultTerminators,
     delimiter |-> DefaultDelimiter, should_space |-> FALSE]

display(c) ==
    [slice |-> AsRef(c), terminators |-> DefaultTerminators,
     delimiter |-> DefaultDelimiter, should_space |-> TRUE]

terminatorSwapped(self, beginning, ending) ==
    [self EXCEPT !.terminators = <<ending, beginning>>]

terminator(self, beginning, ending) ==
    [self EXCEPT !.terminators = <<beginning, ending>>]

delimiterFromDefault(self, d) ==
    [slice |-> self.slice, terminators |-> DefaultTerminators,
     delimiter |-> d, should_space |-> TRUE]

delimiter(self, d) ==
    [self EXCEPT !.delimiter = d]

should_space(self, flag) ==
    [self EXCEPT !.should_space = flag]

----------------------------------------------------------------------------
(* Display::fmt of SliceDisplayImpl, one step per call on the sink.        *)

Beginning(self) == self.terminators[1]

Ending(self) == self.terminators[2]

SpacingAlways(self) == <<" ">>

Spacing(self) == IF self.should_space THEN <<" ">> ELSE <<>>

NoSplit == [none |-> TRUE]

split_lastOrFiller(s) ==
    IF s = <<>> THEN [last |-> Filler, elems |-> <<>>]
    ELSE [last |-> s[Len(s)], elems |-> SubSeq(s, 1, Len(s) - 1)]

split_lastKeepsLast(s) ==
    IF s = <<>> THEN NoSplit
    ELSE [last |-> s[Len(s)], elems |-> s]

split_lastIsFirst(s) ==
    IF s = <<>> THEN NoSplit
    ELSE [last |-> s[1], elems |-> Tail(s)]

\* <[T]>::split_last: None for the empty slice, else (last, all but last).
split_last(s) ==
    IF s = <<>> THEN NoSplit
    ELSE [last |-> s[Len(s)], elems |-> SubSeq(s, 1, Len(s) - 1)]

\* Where fmt goes after writing the opening terminator.
AfterOpen(s) ==
    IF split_last(s) = NoSplit THEN "close"
    ELSE IF split_last(s).elems = <<>> THEN "last"
    ELSE "elem"

AfterSpacingSkipsLast(s, k) ==
    IF k < Len(split_last(s).elems) THEN "elem" ELSE "close"

\* Where fmt goes after the k-th iteration of `for elem in elems`.
AfterSpacing(s, k) ==
    IF k < Len(split_last(s).elems) THEN "elem" ELSE "last"

TryIgnored(ok, next) == next

\* The `?` operator: go on after Ok, return at once after Err.
Try(ok, next) == IF ok THEN next ELSE "done"

\* A failing write may leave a proper prefix of its text in the sink.
PartialLens(text) == IF text = <<>> THEN {0} ELSE 0 .. (Len(text) - 1)

\* One call that writes `text`: a sink write, or an element's fmt (which
\* fails by itself when canSucceed is FALSE).
SinkWrite(kind, text, canSucceed, next, nexti) ==
    \E ok \in (IF canSucceed THEN BOOLEAN ELSE {FALSE}) :
        /\ log' = Append(log, [kind |-> kind, text |-> text, ok |-> ok])
        /\ IF ok
           THEN out' = out \o text
           ELSE \E k \in PartialLens(text) : out' = out \o SubSeq(text, 1, k)
        /\ pc' = Try(ok, next)
        /\ i' = IF Try(ok, next) = "done" THEN i ELSE nexti
        /\ result' = IF Try(ok, next) = "done"
                     THEN (IF ok THEN "Ok" ELSE "Err")
                     ELSE "None"

StartFmt ==
    /\ pc = "idle"
    /\ h # NoHandle
    /\ pc' = "open"
    /\ i' = 0
    /\ out' = <<>>
    /\ log' = <<>>
    /\ result' = "None"
    /\ hStart' = h
    /\ UNCHANGED <<multichar, elems, hvars, pvars>>

WriteOpen ==
    /\ pc = "open"
    /\ SinkWrite("open", Beginning(h), TRUE, AfterOpen(h.slice), 1)
    /\ UNCHANGED <<multichar, elems, hvars, hStart, pvars>>

FmtElem ==
    /\ pc = "elem"
    /\ LET elem == split_last(h.slice).elems[i]
       IN SinkWrite("elem", Render(elem), ~elem.fails, "delim", i)
    /\ UNCHANGED <<multichar, elems, hvars, hStart, pvars>>

WriteDelim ==
    /\ pc = "delim"
    /\ SinkWrite("delim", h.delimiter, TRUE, "spacing", i)
    /\ UNCHANGED <<multichar, elems, hvars, hStart, pvars>>

WriteSpacing ==
    /\ pc = "spacing"
    /\ SinkWrite("space", Spacing(h), TRUE, AfterSpacing(h.slice, i), i + 1)
    /\ UNCHANGED <<multichar, elems, hvars, hStart, pvars>>

FmtLastDrains ==
    /\ pc = "last"
    /\ LET last == split_last(h.slice).last
       IN SinkWrite("elem", Render(last), ~last.fails, "close", i)
    /\ h' = [h EXCEPT !.slice = <<>>]
    /\ UNCHANGED <<multichar, elems, recv, lastOp, lastTerm, lastDelim, lastSpace,
                   hStart, pvars>>

FmtLast ==
    /\ pc = "last"
    /\ LET last == split_last(h.slice).last
       IN SinkWrite("elem", Render(last), ~last.fails, "close", i)
    /\ UNCHANGED <<multichar, elems, hvars, hStart, pvars>>

WriteClose ==
    /\ pc = "close"
    /\ SinkWrite("close", Ending(h), TRUE, "done", i)
    /\ UNCHANGED <<multichar, elems, hvars, hStart, pvars>>

\* fmt has returned; the caller keeps the text of a successful rendering.
Return ==
    /\ pc = "done"
    /\ pc' = "idle"
    /\ prevOut' = IF result = "Ok" THEN out ELSE prevOut
    /\ prevFailed' = (prevFailed \/ result = "Err")
    /\ i' = 0
    /\ out' = <<>>
    /\ log' = <<>>
    /\ result' = "None"
    /\ hStart' = NoHandle
    /\ UNCHANGED <<multichar, elems, hvars>>

----------------------------------------------------------------------------
(* The API calls a caller makes between renderings.                        *)

Display ==
    /\ pc = "idle"
    /\ \E kind \in Kinds :
        /\ h' = display(Container(kind, elems))
        /\ lastOp' = [op |-> "display", kind |-> kind]
    /\ recv' = NoHandle
    /\ lastTerm' = Unset
    /\ lastDelim' = Unset
    /\ lastSpace' = Unset
    /\ prevOut' = NoText
    /\ prevFailed' = FALSE
    /\ UNCHANGED <<multichar, elems, fvars>>

Terminator ==
    /\ pc = "idle"
    /\ h # NoHandle
    /\ \E t \in TermArgs :
        /\ h' = terminator(h, t[1], t[2])
        /\ lastTerm' = [set |-> TRUE, val |-> t]
    /\ recv' = h
    /\ lastOp' = [op |-> "terminator", kind |-> "none"]
    /\ prevOut' = NoText
    /\ prevFailed' = FALSE
    /\ UNCHANGED <<multichar, elems, lastDelim, lastSpace, fvars>>

Delimiter ==
    /\ pc = "idle"
    /\ h # NoHandle
    /\ \E d \in DelimArgs :
        /\ h' = delimiter(h, d)
        /\ lastDelim' = [set |-> TRUE, val |-> d]
    /\ recv' = h
    /\ lastOp' = [op |-> "delimiter", kind |-> "none"]
    /\ prevOut' = NoText
    /\ prevFailed' = FALSE
    /\ UNCHANGED <<multichar, elems, lastTerm, lastSpace, fvars>>

ShouldSpace ==
    /\ pc = "idle"
    /\ h # NoHandle
    /\ \E flag \in BOOLEAN :
        /\ h' = should_space(h, flag)
        /\ lastSpace' = [set |-> TRUE, val |-> flag]
    /\ recv' = h
    /\ lastOp' = [op |-> "should_space", kind |-> "none"]
    /\ prevOut' = NoText
    /\ prevFailed' = FALSE
    /\ UNCHANGED <<multichar, elems, lastTerm, lastDelim, fvars>>

Init ==
    /\ multichar \in BOOLEAN
    /\ elems \in SeqsUpTo(ElemValues, MaxLen)
    /\ h = NoHandle
    /\ recv = NoHandle
    /\ lastOp = [op |-> "none", kind |-> "none"]
    /\ lastTerm = Unset
    /\ lastDelim = Unset
    /\ lastSpace = Unset
    /\ pc = "idle"
    /\ i = 0
    /\ out = <<>>
    /\ log = <<>>
    /\ result = "None"
    /\ hStart = NoHandle
    /\ prevOut = NoText
    /\ prevFailed = FALSE

Next ==
    \/ Display
    \/ Terminator
    \/ Delimiter
    \/ ShouldSpace
    \/ StartFmt
    \/ WriteOpen
    \/ FmtElem
    \/ WriteDelim
    \/ WriteSpacing
    \/ FmtLast
    \/ WriteClose
    \/ Return

Spec == Init /\ [][Next]_vars

----------------------------------------------------------------------------
(* The output grammar, and the properties of the rendering protocol.       *)

Open(hh) == hh.terminators[1]
Close(hh) == hh.terminators[2]
Sep(hh) == hh.delimiter \o (IF hh.should_space THEN <<" ">> ELSE <<>>)

RECURSIVE Joined(_, _)
Joined(s, sep) ==
    IF s = <<>> THEN <<>>
    ELSE IF Len(s) = 1 THEN Render(s[1])
    ELSE Render(s[1]) \o sep \o Joined(Tail(s), sep)

Expected(hh) == Open(hh) \o Joined(hh.slice, Sep(hh)) \o Close(hh)

Completed == pc = "done" /\ result = "Ok"

LogKinds == [j \in 1 .. Len(log) |-> log[j].kind]

RECURSIVE RenderedLen(_, _)
\* Total length of the renderings of the first k elements of s.
RenderedLen(s, k) ==
    IF k = 0 THEN 0 ELSE RenderedLen(s, k - 1) + Len(Render(s[k]))

\* C1: a rendering that completes into a sink that never failed has written
\* open, the elements' renderings in sequence order separated by sep, close.
C1_OutputGrammar ==
    Completed => out = Expected(h)

C1_Witness ==
    /\ Completed
    /\ Len(h.slice) = 3
    /\ h.slice[1] = h.slice[3]
    /\ h.slice[1] # h.slice[2]
    /\ out = Expected(h)

\* C2: display() of any container kind yields a handle on exactly the input's
\* elements with the default Chrome, so the rendering does not depend on the kind.
C2_DisplayDefault ==
    /\ lastOp.op = "display" =>
          /\ h.slice = elems
          /\ Open(h) = <<"[">>
          /\ Close(h) = <<"]">>
          /\ h.delimiter = <<",">>
          /\ h.should_space = TRUE
    /\ (lastOp.op = "display" /\ Completed) =>
          out = <<"[">> \o Joined(elems, <<",", " ">>) \o <<"]">>

C2_Witness ==
    /\ lastOp = [op |-> "display", kind |-> "vec"]
    /\ Completed
    /\ Len(elems) >= 2
    /\ h.slice = elems

\* C3: for the empty sequence a completed rendering is open then close, and
\* nothing else was written.
C3_EmptyLaw ==
    (Completed /\ h.slice = <<>>) =>
        /\ out = Open(h) \o Close(h)
        /\ LogKinds = <<"open", "close">>

C3_Witness ==
    /\ Completed
    /\ h.slice = <<>>
    /\ Open(h) = <<>>
    /\ Close(h) = <<>>
    /\ out = <<>>

\* C4: for a one-element sequence a completed rendering is open, the element's
\* rendering, close; no delimiter and no space is written.
C4_SingletonLaw ==
    (Completed /\ Len(h.slice) = 1) =>
        /\ out = Open(h) \o Render(h.slice[1]) \o Close(h)
        /\ LogKinds = <<"open", "elem", "close">>

C4_Witness ==
    /\ Completed
    /\ Len(h.slice) = 1
    /\ h.should_space
    /\ h.delimiter # <<>>
    /\ lastDelim.set

\* C5: in a completed rendering of a non-empty sequence the text right before
\* close is the last element's rendering, and nothing is written between them.
C5_NoTrailingSeparator ==
    (Completed /\ h.slice # <<>>) =>
        LET r == Render(h.slice[Len(h.slice)])
            c == Close(h)
            n == Len(out)
            m == Len(log)
        IN /\ n >= Len(r) + Len(c)
           /\ SubSeq(out, n - Len(c) - Len(r) + 1, n) = r \o c
           /\ m >= 2
           /\ log[m] = [kind |-> "close", text |-> c, ok |-> TRUE]
           /\ log[m - 1] = [kind |-> "elem", text |-> r, ok |-> TRUE]

C5_Witness ==
    /\ Completed
    /\ Len(h.slice) >= 2
    /\ h.should_space
    /\ h.delimiter # <<>>
    /\ Close(h) # <<>>

\* Offset in out at which the k-th separator position begins.
SepStart(hh, k) == Len(Open(hh)) + RenderedLen(hh.slice, k) + (k - 1) * Len(Sep(hh))

\* C6: in a completed rendering of n >= 2 elements each of the n-1 separator
\* positions is the whole delim followed by exactly one space when
\* should_space is set, and the whole delim followed by no space otherwise.
C6_SpaceLaw ==
    (Completed /\ Len(h.slice) >= 2) =>
        \A k \in 1 .. (Len(h.slice) - 1) :
            LET at == SepStart(h, k)
                d == Len(h.delimiter)
                nxt == Render(h.slice[k + 1])
                sp == IF h.should_space THEN 1 ELSE 0
            IN /\ Len(out) >= at + d + sp + Len(nxt)
               /\ SubSeq(out, at + 1, at + d) = h.delimiter
               /\ h.should_space => out[at + d + 1] = " "
               /\ SubSeq(out, at + d + sp + 1, at + d + sp + Len(nxt)) = nxt

C6_Witness ==
    /\ Completed
    /\ Len(h.slice) = 3
    /\ Len(h.delimiter) = 2
    /\ h.should_space

BuilderOps == {"terminator", "delimiter", "should_space"}

ChangedChromeFields ==
    {f \in {"open", "close", "delim", "space_after_delim"} :
        CASE f = "open"  -> Open(h) # Open(recv)
          [] f = "close" -> Close(h) # Close(recv)
          [] f = "delim" -> h.delimiter # recv.delimiter
          [] f = "space_after_delim" -> h.should_space # recv.should_space}

\* C7 as stated: a builder call changes at most one of open, close, delim,
\* space_after_delim and leaves seq alone.
C7_OneOfFourFields ==
    lastOp.op \in BuilderOps =>
        /\ h.slice = recv.slice
        /\ Cardinality(ChangedChromeFields) <= 1

\* C7 amended: terminator overrides the pair (open, close), delimiter only
\* delim, should_space only the flag; everything else and seq equal the
\* receiver's.
C7_BuilderFrame ==
    /\ lastOp.op = "terminator" =>
          /\ h.terminators = lastTerm.val
          /\ h.slice = recv.slice
          /\ h.delimiter = recv.delimiter
          /\ h.should_space = recv.should_space
    /\ lastOp.op = "delimiter" =>
          /\ h.delimiter = lastDelim.val
          /\ h.slice = recv.slice
          /\ h.terminators = recv.terminators
          /\ h.should_space = recv.should_space
    /\ lastOp.op = "should_space" =>
          /\ h.should_space = lastSpace.val
          /\ h.slice = recv.slice
          /\ h.terminators = recv.terminators
          /\ h.delimiter = recv.delimiter

C7_Witness ==
    /\ lastOp.op = "delimiter"
    /\ recv.terminators # DefaultTerminators
    /\ recv.should_space = FALSE
    /\ h.delimiter # recv.delimiter
    /\ Len(h.slice) >= 1

\* The Chrome decided by the last call on each field, the default otherwise.
LastWrites ==
    [slice |-> elems,
     terminators |-> IF lastTerm.set THEN lastTerm.val ELSE << <<"[">>, <<"]">> >>,
     delimiter |-> IF lastDelim.set THEN lastDelim.val ELSE <<",">>,
     should_space |-> IF lastSpace.set THEN lastSpace.val ELSE TRUE]

\* C8: after any builder calls each Chrome field is the argument of the last
\* call that set it (the default if none did), and a completed rendering
\* depends on nothing else.
C8_LastWriteWins ==
    /\ h # NoHandle => h = LastWrites
    /\ (h # NoHandle /\ Completed) => out = Expected(LastWrites)

C8_Witness ==
    /\ lastOp.op = "delimiter"
    /\ lastTerm.set
    /\ lastSpace.set
    /\ recv.delimiter # <<",">>
    /\ recv.delimiter # h.delimiter
    /\ Completed

\* C9: a failed call is the last call of its rendering and the rendering
\* returns Err; a rendering returns Ok only after every call succeeded and
\* close was written.
C9_ShortCircuit ==
    /\ \A j \in 1 .. Len(log) :
          ~log[j].ok => (j = Len(log) /\ pc = "done" /\ result = "Err")
    /\ result = "Err" => (log # <<>> /\ ~log[Len(log)].ok)
    /\ result = "Ok" =>
          /\ pc = "done"
          /\ \A j \in 1 .. Len(log) : log[j].ok
          /\ log[Len(log)].kind = "close"
    /\ \A j \in 1 .. Len(log) : log[j].kind = "close" => j = Len(log)

C9_Witness ==
    /\ pc = "done"
    /\ result = "Err"
    /\ Len(log) >= 3
    /\ log[Len(log)].kind = "delim"
    /\ Len(h.slice) = 3

\* C10: a rendering does not change the handle, a successful rendering equals
\* the previous successful rendering of the same handle, and one that follows
\* a failed rendering is the full output.
C10_NoRenderState ==
    /\ pc # "idle" => h = hStart
    /\ (Completed /\ prevOut # NoText) => out = prevOut
    /\ (Completed /\ prevFailed) => out = Expected(hStart)

C10_Witness ==
    /\ Completed
    /\ prevOut # NoText
    /\ prevFailed
    /\ out = prevOut
    /\ Len(h.slice) >= 2

====
